---- MODULE Spec2Model ----
(***************************************************************************)
(* The SQL mapping-sync worker of client/mapping-sync/src/sql/mod.rs:      *)
(* KnownHashes (the indexed-hash cache, IHC), the batch of pending hashes, *)
(* the two branches of SyncWorker::run and the ancestor traversal          *)
(* SyncWorker::index, over a node that imports blocks of a small block     *)
(* tree and an indexer database (sync_status, blocks).                     *)
(***************************************************************************)
EXTENDS Integers, Sequences, FiniteSets, TLC

\* ------------------------------------------------------------------ bounds
\* Blocks the node may import on top of genesis.
MaxBlocks == 3
\* The batch_size argument of SyncWorker::run.
BatchSize == 2

\* The capacities of KnownHashes examined on its own.
MaxCacheSize == 2

\* --------------------------------------------------------------- constants
\* KnownHashes::cache_size of the value SyncWorker::new builds: the field is
\* never set, `imported_blocks: Default::default()` leaves usize's default.
CacheSize == 0

\* H256::default(), the all-zero hash.
Zero == 0
\* The hash of the genesis block.
Genesis == 1

\* ------------------------------------------------------------ the block tree
\* Hashes are 1..1+MaxBlocks. Two branches grow from genesis: the even hashes
\* 2, 4, 6.. and the odd hashes 3, 5, 7..
Hashes == 1..(1 + MaxBlocks)

Parent(b) == IF b = Genesis THEN Zero ELSE IF b <= 3 THEN Genesis ELSE b - 2

Number(b) == b \div 2

RECURSIVE AncestorsIncl(_)
AncestorsIncl(b) == IF b = Zero THEN {} ELSE {b} \cup AncestorsIncl(Parent(b))

\* The blocks from b down to (not including) the first one in stop, b first.
RECURSIVE PathDown(_, _)
PathDown(b, stop) ==
    IF b = Zero \/ b \in stop THEN <<>> ELSE <<b>> \o PathDown(Parent(b), stop)

Reverse(s) == [i \in 1..Len(s) |-> s[Len(s) + 1 - i]]

Range(s) == {s[i] : i \in 1..Len(s)}

\* sp_blockchain::TreeRoute from one block to another.
TreeRoute(from, to) ==
    [retracted |-> PathDown(from, AncestorsIncl(to)),
     enacted   |-> Reverse(PathDown(to, AncestorsIncl(from)))]

\* Every ordering of a finite set as a sequence.
Orderings(S) ==
    {s \in [1..Cardinality(S) -> S] : \A i, j \in 1..Cardinality(S) : i /= j => s[i] /= s[j]}

\* The contents a sync_status table may have: distinct hashes in id order.
Rows ==
    {s \in UNION {[1..k -> Hashes] : k \in 0..Cardinality(Hashes)} :
        \A i, j \in 1..Len(s) : i /= j => s[i] /= s[j]}

\* ------------------------------------------------------------------- state
\* route_retracted and canon_failed record what the worker was told and what
\* became of it; no action reads them.
VARIABLES
    imported,       \* node: the blocks imported so far
    best,           \* node: the best block
    notifications,  \* the import notification stream, oldest first
    stream,         \* the stream: "open", "closed" by the node, "terminated"
    sync_status,    \* db: sync_status rows in id order (substrate_block_hash)
    blocks,         \* db: blocks rows, hash -> is_canon
    cache,          \* worker.imported_blocks.cache, front first
    cache_size,     \* worker.imported_blocks.cache_size
    current_batch,  \* worker.current_batch
    resume_at,      \* run's resume_at: <<>> is None, <<h>> is Some(h)
    try_create_indexes,
    hashes,         \* the `hashes` vector of the running index call
    pc,             \* "start", "idle", "interval", "notification", "dead"
    calls,          \* the backend and client calls of the latest step, in order
    stop,           \* how the latest step left the traversal loop
    popped,         \* the hash the latest traversal step popped, <<>> if none
    lookup_failed,  \* the pending hashes enqueued after a failed IHC db lookup
    route_retracted, \* hashes whose latest received tree route retracted them
    canon_failed,   \* recorded hashes whose latest route's canonicalize call failed
    notified,       \* <<notification.hash>> while a notification branch indexes
    logs            \* db: the hashes with rows in logs once the spawned tasks ran

vars == <<imported, best, notifications, sync_status, blocks, cache, current_batch,
          resume_at, try_create_indexes, hashes, pc, calls, stop, popped,
          lookup_failed, route_retracted, canon_failed, notified, logs, cache_size,
          stream>>

chainVars == <<imported, best>>
routeVars == <<route_retracted, canon_failed>>
dbVars == <<sync_status, blocks, logs>>

\* ------------------------------------------------------------- KnownHashes
\* VecDeque::contains
Contains(s, v) == \E i \in 1..Len(s) : s[i] = v

\* KnownHashes::insert: the cache after the call.
KnownHashes_insert(c, value) ==
    LET kept == IF Len(c) = cache_size /\ Len(c) > 0 THEN SubSeq(c, 1, Len(c) - 1) ELSE c
    IN  <<value>> \o kept

\* KnownHashes::insert: the value it returns, <<>> is None.
KnownHashes_insert_popped(c, value) ==
    IF Len(c) = cache_size /\ Len(c) > 0 THEN <<c[Len(c)]>> ELSE <<>>

\* KnownHashes::append
RECURSIVE KnownHashes_append(_, _)
KnownHashes_append(c, other) ==
    IF other = <<>> THEN c
    ELSE KnownHashes_append(KnownHashes_insert(c, Head(other)), Tail(other))

\* populate_cache with the rows taken in ascending id order.
KnownHashes_populate_cache_ascending(c, rows) ==
    LET n == IF cache_size < Len(rows) THEN cache_size ELSE Len(rows)
    IN  c \o [i \in 1..n |-> rows[i]]

\* KnownHashes::populate_cache: SELECT .. ORDER BY id DESC LIMIT cache_size,
\* each row pushed to the back.
KnownHashes_populate_cache(c, rows) ==
    LET n == IF cache_size < Len(rows) THEN cache_size ELSE Len(rows)
    IN  c \o [i \in 1..n |-> rows[Len(rows) + 1 - i]]

KnownHashes_contains_cached(c, value) == Contains(c, value)

\* KnownHashes::contains with the query's answer dropped: every cache miss
\* answers false.
KnownHashes_contains_ignoresRows(c, value, rows, dbOk) ==
    KnownHashes_contains_cached(c, value)

\* KnownHashes::contains without the cache lookup: the query alone answers.
KnownHashes_contains_queryOnly(c, value, rows, dbOk) ==
    IF dbOk THEN Contains(rows, value) ELSE FALSE

\* KnownHashes::contains with a failed query answering true.
KnownHashes_contains_trueOnError(c, value, rows, dbOk) ==
    IF KnownHashes_contains_cached(c, value) THEN TRUE
    ELSE IF dbOk THEN Contains(rows, value) ELSE TRUE

\* KnownHashes::contains: a cache hit, else the sync_status query; a failed
\* query (dbOk = FALSE) answers false.
KnownHashes_contains(c, value, rows, dbOk) ==
    IF KnownHashes_contains_cached(c, value) THEN TRUE
    ELSE IF dbOk THEN Contains(rows, value) ELSE FALSE

\* KnownHashes::latest, as a sequence of at most one hash.
KnownHashes_latest(c) == IF c = <<>> THEN <<>> ELSE <<c[1]>>

\* ----------------------------------------------------------- indexer backend
Call(op, a, b, ok) == [op |-> op, a |-> a, b |-> b, ok |-> ok]

\* fc_db::sql::Backend::insert_block_metadata: one transaction; a row per hash in
\* sync_status and in blocks (is_canon = 1), a hash that has its row is skipped.
InsertSyncStatus(rows, batch) ==
    rows \o SelectSeq(batch, LAMBDA h : ~Contains(rows, h))

InsertBlocks(b, batch) ==
    [h \in DOMAIN b \cup Range(batch) |-> IF h \in DOMAIN b THEN b[h] ELSE 1]

\* fc_db::sql::Backend::canonicalize: is_canon = 0 for the retracted rows and 1
\* for the enacted rows, in one transaction.
CanonicalizeBlocks(b, retracted, enacted) ==
    [h \in DOMAIN b |-> IF h \in Range(enacted) THEN 1
                        ELSE IF h \in Range(retracted) THEN 0 ELSE b[h]]

\* fc_db::sql::Backend::spawn_logs_task, once the task has run: it drains every
\* recorded block whose logs are not extracted yet.
SpawnLogsTask(rows) == Range(rows)

\* ------------------------------------------------------------- the Batcher
\* index_current_batch without the final current_batch.clear().
index_current_batch_keepsBatch(w, ok) ==
    LET sync == IF ok THEN InsertSyncStatus(w.sync, w.batch) ELSE w.sync
    IN  [cache  |-> KnownHashes_append(w.cache, w.batch),
         batch  |-> w.batch,
         sync   |-> sync,
         blocks |-> IF ok THEN InsertBlocks(w.blocks, w.batch) ELSE w.blocks,
         logs   |-> SpawnLogsTask(sync),
         calls  |-> w.calls \o <<Call("insert_block_metadata", w.batch, <<>>, ok),
                                 Call("spawn_logs_task", <<>>, <<>>, TRUE)>>]

\* index_current_batch without the spawn_logs_task call.
index_current_batch_noLogsTask(w, ok) ==
    [cache  |-> KnownHashes_append(w.cache, w.batch),
     batch  |-> <<>>,
     sync   |-> IF ok THEN InsertSyncStatus(w.sync, w.batch) ELSE w.sync,
     blocks |-> IF ok THEN InsertBlocks(w.blocks, w.batch) ELSE w.blocks,
     logs   |-> w.logs,
     calls  |-> w.calls \o <<Call("insert_block_metadata", w.batch, <<>>, ok)>>]

\* SyncWorker::index_current_batch on w = [cache, batch, sync, blocks, logs,
\* calls]; ok is whether insert_block_metadata succeeded.
index_current_batch(w, ok) ==
    LET sync == IF ok THEN InsertSyncStatus(w.sync, w.batch) ELSE w.sync
    IN  [cache  |-> KnownHashes_append(w.cache, w.batch),
         batch  |-> <<>>,
         sync   |-> sync,
         blocks |-> IF ok THEN InsertBlocks(w.blocks, w.batch) ELSE w.blocks,
         logs   |-> SpawnLogsTask(sync),
         calls  |-> w.calls \o <<Call("insert_block_metadata", w.batch, <<>>, ok),
                                 Call("spawn_logs_task", <<>>, <<>>, TRUE)>>]

\* index_block without the `!force_sync` test: a pending hash returns false
\* also in a forced call.
index_block_pendingAlwaysFalse(w, hash, force_sync, ok) ==
    LET queued == IF ~Contains(w.batch, hash)
                  THEN [w EXCEPT !.batch = Append(@, hash)] ELSE w
    IN  IF Contains(w.batch, hash)
        THEN [w |-> w, ret |-> FALSE]
        ELSE IF force_sync \/ Len(queued.batch) = BatchSize
             THEN [w |-> index_current_batch(queued, ok), ret |-> TRUE]
             ELSE [w |-> queued, ret |-> TRUE]

\* index_block putting a new hash at the head of the batch.
index_block_pushFront(w, hash, force_sync, ok) ==
    LET queued == IF ~Contains(w.batch, hash)
                  THEN [w EXCEPT !.batch = <<hash>> \o @] ELSE w
    IN  IF Contains(w.batch, hash) /\ ~force_sync
        THEN [w |-> w, ret |-> FALSE]
        ELSE IF force_sync \/ Len(queued.batch) = BatchSize
             THEN [w |-> index_current_batch(queued, ok), ret |-> TRUE]
             ELSE [w |-> queued, ret |-> TRUE]

\* index_block flushing a non-forced batch only above batch_size.
index_block_flushAboveSize(w, hash, force_sync, ok) ==
    LET queued == IF ~Contains(w.batch, hash)
                  THEN [w EXCEPT !.batch = Append(@, hash)] ELSE w
    IN  IF Contains(w.batch, hash) /\ ~force_sync
        THEN [w |-> w, ret |-> FALSE]
        ELSE IF force_sync \/ Len(queued.batch) > BatchSize
             THEN [w |-> index_current_batch(queued, ok), ret |-> TRUE]
             ELSE [w |-> queued, ret |-> TRUE]

\* index_block flushing on the batch length alone.
index_block_flushOnLengthOnly(w, hash, force_sync, ok) ==
    LET queued == IF ~Contains(w.batch, hash)
                  THEN [w EXCEPT !.batch = Append(@, hash)] ELSE w
    IN  IF Contains(w.batch, hash) /\ ~force_sync
        THEN [w |-> w, ret |-> FALSE]
        ELSE IF Len(queued.batch) = BatchSize
             THEN [w |-> index_current_batch(queued, ok), ret |-> TRUE]
             ELSE [w |-> queued, ret |-> TRUE]

\* SyncWorker::index_block: the state after the call and what it returns.
index_block(w, hash, force_sync, ok) ==
    LET queued == IF ~Contains(w.batch, hash)
                  THEN [w EXCEPT !.batch = Append(@, hash)] ELSE w
    IN  IF Contains(w.batch, hash) /\ ~force_sync
        THEN [w |-> w, ret |-> FALSE]
        ELSE IF force_sync \/ Len(queued.batch) = BatchSize
             THEN [w |-> index_current_batch(queued, ok), ret |-> TRUE]
             ELSE [w |-> queued, ret |-> TRUE]

\* ----------------------------------------------------------------- the node
\* The leaves of the imported tree.
Leaves == {b \in imported : ~\E c \in imported : Parent(c) = b}

\* The node imports a block on an imported parent; the longest chain is the best
\* one. While a worker listens, the import is notified; the notification carries
\* the tree route from the old best block to the parent of the new one when the
\* new best block is not a child of the old one.
Import ==
    \E b \in Hashes \ imported :
        /\ Parent(b) \in imported
        /\ LET isBest == Number(b) > Number(best)
               route  == IF isBest /\ Parent(b) /= best
                         THEN <<TreeRoute(best, Parent(b))>> ELSE <<>>
           IN  /\ imported' = imported \cup {b}
               /\ best' = IF isBest THEN b ELSE best
               /\ notifications' =
                      IF pc \in {"start", "dead"} \/ stream /= "open" THEN notifications
                      ELSE Append(notifications,
                                  [hash |-> b, is_new_best |-> isBest, tree_route |-> route])
        /\ calls' = <<>> /\ stop' = "none" /\ popped' = <<>>
        /\ UNCHANGED <<dbVars, cache, current_batch, resume_at, try_create_indexes,
                       hashes, pc, lookup_failed, routeVars, notified,
                       cache_size, stream>>

\* The node imports a block as high as the best one and its fork choice makes it
\* the new best block (a heavier chain of the same length): the tree route
\* retracts the old best chain down to the common ancestor and enacts the path to
\* the new block's parent, which is empty when that parent is the ancestor.
ImportTie ==
    \E b \in Hashes \ imported :
        /\ Parent(b) \in imported
        /\ Number(b) = Number(best)
        /\ imported' = imported \cup {b}
        /\ best' = b
        /\ notifications' =
               IF pc \in {"start", "dead"} \/ stream /= "open" THEN notifications
               ELSE Append(notifications,
                           [hash |-> b, is_new_best |-> TRUE,
                            tree_route |-> <<TreeRoute(best, Parent(b))>>])
        /\ calls' = <<>> /\ stop' = "none" /\ popped' = <<>>
        /\ UNCHANGED <<dbVars, cache, current_batch, resume_at, try_create_indexes,
                       hashes, pc, lookup_failed, routeVars, notified,
                       cache_size, stream>>

\* The node imports while no worker listens.
ImportBeforeStart == pc = "start" /\ Import

\* ------------------------------------------------------------------ startup
\* The outcomes a database or client call may have: it succeeds or fails.
Outcomes == BOOLEAN

\* The only outcome when nothing fails.
Success == {TRUE}

\* Startup with a failed sync_status query only logged: the worker goes on to
\* the loop with an empty cache.
StartupOn_queryErrorLogged(O) ==
    /\ pc = "start"
    /\ LET c1 == KnownHashes_populate_cache(cache, sync_status)
            latest == KnownHashes_latest(c1)
       IN  \E popOk \in O :
           \E hdrOk \in IF popOk /\ latest /= <<>> THEN O ELSE {TRUE} :
           \E genOk \in IF popOk /\ latest = <<>> THEN O ELSE {TRUE} :
            IF ~popOk
            THEN /\ pc' = "idle"
                 /\ calls' = <<Call("populate_cache", <<>>, <<>>, FALSE)>>
                 /\ UNCHANGED <<dbVars, cache, resume_at>>
            ELSE IF latest /= <<>>
            THEN /\ pc' = "idle"
                 /\ cache' = c1
                 /\ resume_at' = IF hdrOk /\ latest[1] \in imported
                                 THEN <<Parent(latest[1])>> ELSE <<>>
                 /\ calls' = <<Call("populate_cache", <<>>, <<>>, TRUE)>>
                 /\ UNCHANGED dbVars
            ELSE /\ pc' = "idle"
                 /\ resume_at' = <<>>
                 /\ calls' = <<Call("populate_cache", <<>>, <<>>, TRUE),
                               Call("insert_genesis_block_metadata", <<Genesis>>, <<>>, genOk)>>
                 /\ IF genOk
                    THEN /\ sync_status' = InsertSyncStatus(sync_status, <<Genesis>>)
                         /\ blocks' = InsertBlocks(blocks, <<Genesis>>)
                         /\ cache' = KnownHashes_insert(c1, Genesis)
                         /\ UNCHANGED logs
                    ELSE /\ cache' = c1
                         /\ UNCHANGED dbVars
    /\ stop' = "none" /\ popped' = <<>>
    /\ UNCHANGED <<chainVars, notifications, current_batch, try_create_indexes, hashes,
                   lookup_failed, routeVars, notified, cache_size, stream>>

\* SyncWorker::run up to the loop: populate_cache (a failed query panics), then
\* the resume checkpoint or the genesis block. O: the outcomes the calls may have.
StartupOn(O) ==
    /\ pc = "start"
    /\ LET c1 == KnownHashes_populate_cache(cache, sync_status)
            latest == KnownHashes_latest(c1)
       IN  \E popOk \in O :
           \E hdrOk \in IF popOk /\ latest /= <<>> THEN O ELSE {TRUE} :
           \E genOk \in IF popOk /\ latest = <<>> THEN O ELSE {TRUE} :
            IF ~popOk
            THEN /\ pc' = "dead"
                 /\ calls' = <<Call("populate_cache", <<>>, <<>>, FALSE)>>
                 /\ UNCHANGED <<dbVars, cache, resume_at>>
            ELSE IF latest /= <<>>
            THEN /\ pc' = "idle"
                 /\ cache' = c1
                 /\ resume_at' = IF hdrOk /\ latest[1] \in imported
                                 THEN <<Parent(latest[1])>> ELSE <<>>
                 /\ calls' = <<Call("populate_cache", <<>>, <<>>, TRUE)>>
                 /\ UNCHANGED dbVars
            ELSE /\ pc' = "idle"
                 /\ resume_at' = <<>>
                 /\ calls' = <<Call("populate_cache", <<>>, <<>>, TRUE),
                               Call("insert_genesis_block_metadata", <<Genesis>>, <<>>, genOk)>>
                 /\ IF genOk
                    THEN /\ sync_status' = InsertSyncStatus(sync_status, <<Genesis>>)
                         /\ blocks' = InsertBlocks(blocks, <<Genesis>>)
                         /\ cache' = KnownHashes_insert(c1, Genesis)
                         /\ UNCHANGED logs
                    ELSE /\ cache' = c1
                         /\ UNCHANGED dbVars
    /\ stop' = "none" /\ popped' = <<>>
    /\ UNCHANGED <<chainVars, notifications, current_batch, try_create_indexes, hashes,
                   lookup_failed, routeVars, notified, cache_size, stream>>

Startup == StartupOn(Outcomes)

StartupOk == StartupOn(Success)

\* The worker task is dropped, at any await point, and run again on the same
\* database and node with a new notification stream.
Restart ==
    /\ pc /= "start"
    /\ pc' = "start"
    /\ cache' = <<>> /\ cache_size' = CacheSize
    /\ current_batch' = <<>> /\ resume_at' = <<>>
    /\ try_create_indexes' = TRUE
    /\ stream' = "open"
    /\ hashes' = <<>> /\ notifications' = <<>> /\ notified' = <<>>
    /\ lookup_failed' = {}
    /\ calls' = <<>> /\ stop' = "none" /\ popped' = <<>>
    /\ UNCHANGED <<chainVars, dbVars, routeVars>>

\* ---------------------------------------------------------------- traversal
\* The loop body without the `hash == H256::default()` exit.
index_iteration_noZeroExit(w, hash, force_sync, dbOk, insOk) ==
    IF KnownHashes_contains(w.cache, hash, w.sync, dbOk)
    THEN [w |-> w, stop |-> "known"]
    ELSE LET r == index_block(w, hash, force_sync, insOk)
         IN  [w |-> r.w, stop |-> IF r.ret THEN "none" ELSE "queued"]

\* The loop body without the `imported_blocks.contains` exit.
index_iteration_noKnownExit(w, hash, force_sync, dbOk, insOk) ==
    IF hash = Zero THEN [w |-> w, stop |-> "zero"]
    ELSE LET r == index_block(w, hash, force_sync, insOk)
         IN  [w |-> r.w, stop |-> IF r.ret THEN "none" ELSE "queued"]

\* The body of the while loop of SyncWorker::index for the popped hash, up to the
\* header lookup: the state after it and how it leaves the loop ("none": it goes
\* on to the header lookup). dbOk: the IHC's sync_status query succeeded; insOk:
\* insert_block_metadata succeeded.
index_iteration(w, hash, force_sync, dbOk, insOk) ==
    IF hash = Zero THEN [w |-> w, stop |-> "zero"]
    ELSE IF KnownHashes_contains(w.cache, hash, w.sync, dbOk)
    THEN [w |-> w, stop |-> "known"]
    ELSE LET r == index_block(w, hash, force_sync, insOk)
         IN  [w |-> r.w, stop |-> IF r.ret THEN "none" ELSE "queued"]

\* The iteration with a failed or missed header lookup leaving the loop: the
\* rest of the vector is dropped.
IndexStepOn_headerMissBreaks(O) ==
    /\ pc \in {"interval", "notification"}
    /\ hashes /= <<>>
    /\ LET hash == hashes[Len(hashes)]
           rest == SubSeq(hashes, 1, Len(hashes) - 1)
           force_sync == (pc = "notification")
           w == [cache |-> cache, batch |-> current_batch, sync |-> sync_status,
                 blocks |-> blocks, logs |-> logs, calls |-> <<>>]
           queried == hash /= Zero /\ ~KnownHashes_contains_cached(cache, hash)
       IN  \* the outcome of a call is drawn only where the call is made
           \E dbOk \in IF queried THEN O ELSE {TRUE} :
           \E probe \in {index_iteration(w, hash, force_sync, dbOk, TRUE)} :
           \E insOk \in IF probe.w.calls /= <<>> THEN O ELSE {TRUE} :
           \E hdrOk \in IF probe.stop = "none" THEN O ELSE {TRUE} :
           \E it \in {index_iteration(w, hash, force_sync, dbOk, insOk)} :
           \E more \in {IF it.stop = "none" /\ hdrOk /\ hash \in imported
                        THEN Append(rest, Parent(hash)) ELSE <<>>} :
             LET done == it.stop /= "none" \/ more = <<>>
                 lookup == IF queried
                           THEN <<Call("sync_status_lookup", <<hash>>, <<>>, dbOk)>>
                           ELSE <<>>
             IN  /\ popped' = <<hash>>
                 /\ cache' = it.w.cache
                 /\ current_batch' = it.w.batch
                 /\ sync_status' = it.w.sync
                 /\ blocks' = it.w.blocks
                 /\ logs' = it.w.logs
                 /\ calls' = lookup \o it.w.calls \o
                       (IF it.stop = "none"
                        THEN <<Call("header", <<hash>>, <<>>, hdrOk /\ hash \in imported)>>
                        ELSE <<>>)
                 /\ lookup_failed' =
                       (IF queried /\ ~dbOk THEN lookup_failed \cup {hash}
                        ELSE lookup_failed) \cap Range(it.w.batch)
                 /\ hashes' = IF done THEN <<>> ELSE more
                 /\ notified' = IF done THEN <<>> ELSE notified
                 /\ stop' = IF it.stop = "none" /\ more = <<>> THEN "empty" ELSE it.stop
                 /\ pc' = IF done THEN "idle" ELSE pc
    /\ UNCHANGED <<chainVars, notifications, resume_at, try_create_indexes,
                   routeVars, cache_size, stream>>

\* The iteration pushing the popped hash back in place of its parent.
IndexStepOn_pushesSelf(O) ==
    /\ pc \in {"interval", "notification"}
    /\ hashes /= <<>>
    /\ LET hash == hashes[Len(hashes)]
           rest == SubSeq(hashes, 1, Len(hashes) - 1)
           force_sync == (pc = "notification")
           w == [cache |-> cache, batch |-> current_batch, sync |-> sync_status,
                 blocks |-> blocks, logs |-> logs, calls |-> <<>>]
           queried == hash /= Zero /\ ~KnownHashes_contains_cached(cache, hash)
       IN  \* the outcome of a call is drawn only where the call is made
           \E dbOk \in IF queried THEN O ELSE {TRUE} :
           \E probe \in {index_iteration(w, hash, force_sync, dbOk, TRUE)} :
           \E insOk \in IF probe.w.calls /= <<>> THEN O ELSE {TRUE} :
           \E hdrOk \in IF probe.stop = "none" THEN O ELSE {TRUE} :
           \E it \in {index_iteration(w, hash, force_sync, dbOk, insOk)} :
           \E more \in {IF it.stop = "none" /\ hdrOk /\ hash \in imported
                        THEN Append(rest, hash) ELSE rest} :
             LET done == it.stop /= "none" \/ more = <<>>
                 lookup == IF queried
                           THEN <<Call("sync_status_lookup", <<hash>>, <<>>, dbOk)>>
                           ELSE <<>>
             IN  /\ popped' = <<hash>>
                 /\ cache' = it.w.cache
                 /\ current_batch' = it.w.batch
                 /\ sync_status' = it.w.sync
                 /\ blocks' = it.w.blocks
                 /\ logs' = it.w.logs
                 /\ calls' = lookup \o it.w.calls \o
                       (IF it.stop = "none"
                        THEN <<Call("header", <<hash>>, <<>>, hdrOk /\ hash \in imported)>>
                        ELSE <<>>)
                 /\ lookup_failed' =
                       (IF queried /\ ~dbOk THEN lookup_failed \cup {hash}
                        ELSE lookup_failed) \cap Range(it.w.batch)
                 /\ hashes' = IF done THEN <<>> ELSE more
                 /\ notified' = IF done THEN <<>> ELSE notified
                 /\ stop' = IF it.stop = "none" /\ more = <<>> THEN "empty" ELSE it.stop
                 /\ pc' = IF done THEN "idle" ELSE pc
    /\ UNCHANGED <<chainVars, notifications, resume_at, try_create_indexes,
                   routeVars, cache_size, stream>>

\* One iteration of the loop of SyncWorker::index, force_sync in a notification
\* branch; the loop is left by a break or when `hashes` is empty, and the vector
\* is dropped with the branch. O: the outcomes the calls may have.
IndexStepOn(O) ==
    /\ pc \in {"interval", "notification"}
    /\ hashes /= <<>>
    /\ LET hash == hashes[Len(hashes)]
           rest == SubSeq(hashes, 1, Len(hashes) - 1)
           force_sync == (pc = "notification")
           w == [cache |-> cache, batch |-> current_batch, sync |-> sync_status,
                 blocks |-> blocks, logs |-> logs, calls |-> <<>>]
           queried == hash /= Zero /\ ~KnownHashes_contains_cached(cache, hash)
       IN  \* the outcome of a call is drawn only where the call is made
           \E dbOk \in IF queried THEN O ELSE {TRUE} :
           \E probe \in {index_iteration(w, hash, force_sync, dbOk, TRUE)} :
           \E insOk \in IF probe.w.calls /= <<>> THEN O ELSE {TRUE} :
           \E hdrOk \in IF probe.stop = "none" THEN O ELSE {TRUE} :
           \E it \in {index_iteration(w, hash, force_sync, dbOk, insOk)} :
           \E more \in {IF it.stop = "none" /\ hdrOk /\ hash \in imported
                        THEN Append(rest, Parent(hash)) ELSE rest} :
             LET done == it.stop /= "none" \/ more = <<>>
                 lookup == IF queried
                           THEN <<Call("sync_status_lookup", <<hash>>, <<>>, dbOk)>>
                           ELSE <<>>
             IN  /\ popped' = <<hash>>
                 /\ cache' = it.w.cache
                 /\ current_batch' = it.w.batch
                 /\ sync_status' = it.w.sync
                 /\ blocks' = it.w.blocks
                 /\ logs' = it.w.logs
                 /\ calls' = lookup \o it.w.calls \o
                       (IF it.stop = "none"
                        THEN <<Call("header", <<hash>>, <<>>, hdrOk /\ hash \in imported)>>
                        ELSE <<>>)
                 /\ lookup_failed' =
                       (IF queried /\ ~dbOk THEN lookup_failed \cup {hash}
                        ELSE lookup_failed) \cap Range(it.w.batch)
                 /\ hashes' = IF done THEN <<>> ELSE more
                 /\ notified' = IF done THEN <<>> ELSE notified
                 /\ stop' = IF it.stop = "none" /\ more = <<>> THEN "empty" ELSE it.stop
                 /\ pc' = IF done THEN "idle" ELSE pc
    /\ UNCHANGED <<chainVars, notifications, resume_at, try_create_indexes,
                   routeVars, cache_size, stream>>

IndexStep == IndexStepOn(Outcomes)

IndexStepOk == IndexStepOn(Success)

\* ---------------------------------------------------------- interval branch
\* The interval branch with a failed leaves() propagated out of run, as `?`
\* would: the worker ends.
IntervalOn_leavesFatal(O) ==
    /\ pc = "idle"
    /\ \E leavesOk \in O :
       \E order \in IF leavesOk THEN Orderings(Leaves) ELSE {<<>>} :
        /\ calls' = <<Call("leaves", <<>>, <<>>, leavesOk)>>
        /\ LET withResume == order \o resume_at
               kept == SelectSeq(withResume,
                                 LAMBDA l : ~KnownHashes_contains_cached(cache, l))
           IN  IF ~leavesOk
               THEN /\ stop' = "none" /\ pc' = "dead"
                    /\ UNCHANGED <<resume_at, hashes>>
               ELSE /\ resume_at' = <<>>
                    /\ hashes' = kept
                    /\ pc' = IF kept = <<>> THEN "idle" ELSE "interval"
                    /\ stop' = IF kept = <<>> THEN "empty" ELSE "none"
    /\ popped' = <<>>
    /\ UNCHANGED <<chainVars, notifications, dbVars, cache, current_batch,
                   try_create_indexes, lookup_failed, routeVars, notified,
                   cache_size, stream>>

\* The interval branch falling back to the best block when leaves() fails.
IntervalOn_leavesErrorWalksBest(O) ==
    /\ pc = "idle"
    /\ \E leavesOk \in O :
       \E order \in IF leavesOk THEN Orderings(Leaves) ELSE {<<>>} :
        /\ calls' = <<Call("leaves", <<>>, <<>>, leavesOk)>>
        /\ LET withResume == order \o resume_at
               kept == SelectSeq(withResume,
                                 LAMBDA l : ~KnownHashes_contains_cached(cache, l))
           IN  IF ~leavesOk
               THEN /\ stop' = "none" /\ pc' = "interval"
                    /\ hashes' = <<best>>
                    /\ UNCHANGED resume_at
               ELSE /\ resume_at' = <<>>
                    /\ hashes' = kept
                    /\ pc' = IF kept = <<>> THEN "idle" ELSE "interval"
                    /\ stop' = IF kept = <<>> THEN "empty" ELSE "none"
    /\ popped' = <<>>
    /\ UNCHANGED <<chainVars, notifications, dbVars, cache, current_batch,
                   try_create_indexes, lookup_failed, routeVars, notified,
                   cache_size, stream>>

\* The interval branch as a task of its own: it is taken also while a
\* notification branch is under way.
IntervalOn_concurrent(O) ==
    /\ pc \in {"idle", "notification"}
    /\ \E leavesOk \in O :
       \E order \in IF leavesOk THEN Orderings(Leaves) ELSE {<<>>} :
        /\ calls' = <<Call("leaves", <<>>, <<>>, leavesOk)>>
        /\ LET withResume == order \o resume_at
               kept == SelectSeq(withResume,
                                 LAMBDA l : ~KnownHashes_contains_cached(cache, l))
           IN  IF ~leavesOk
               THEN /\ stop' = "none"
                    /\ UNCHANGED <<resume_at, hashes, pc>>
               ELSE /\ resume_at' = <<>>
                    /\ hashes' = kept
                    /\ pc' = IF kept = <<>> THEN "idle" ELSE "interval"
                    /\ stop' = IF kept = <<>> THEN "empty" ELSE "none"
    /\ popped' = <<>>
    /\ UNCHANGED <<chainVars, notifications, dbVars, cache, current_batch,
                   try_create_indexes, lookup_failed, routeVars, notified,
                   cache_size, stream>>

\* The interval branch up to the call of index: leaves(), the resume checkpoint,
\* the known leaves dropped. A failed leaves() only resets the timer.
IntervalOn(O) ==
    /\ pc = "idle"
    /\ \E leavesOk \in O :
       \E order \in IF leavesOk THEN Orderings(Leaves) ELSE {<<>>} :
        /\ calls' = <<Call("leaves", <<>>, <<>>, leavesOk)>>
        /\ LET withResume == order \o resume_at
               kept == SelectSeq(withResume,
                                 LAMBDA l : ~KnownHashes_contains_cached(cache, l))
           IN  IF ~leavesOk
               THEN /\ stop' = "none"
                    /\ UNCHANGED <<resume_at, hashes, pc>>
               ELSE /\ resume_at' = <<>>
                    /\ hashes' = kept
                    /\ pc' = IF kept = <<>> THEN "idle" ELSE "interval"
                    /\ stop' = IF kept = <<>> THEN "empty" ELSE "none"
    /\ popped' = <<>>
    /\ UNCHANGED <<chainVars, notifications, dbVars, cache, current_batch,
                   try_create_indexes, lookup_failed, routeVars, notified,
                   cache_size, stream>>

Interval == IntervalOn(Outcomes)

IntervalOk == IntervalOn(Success)

\* ------------------------------------------------------ notification branch
\* canonicalize passing the enacted hashes only.
canonicalize_enactedOnly(b, route, ok) ==
    IF ok THEN CanonicalizeBlocks(b, <<>>, route.enacted) ELSE b

\* SyncWorker::canonicalize: a failed backend call is only logged.
canonicalize(b, route, ok) ==
    IF ok THEN CanonicalizeBlocks(b, route.retracted, route.enacted) ELSE b

\* The notification branch that indexes every notified block, new best or not.
notification_branch_noBestFilter(n, b, try, canOk, idxOk) ==
    [blocks  |-> IF n.tree_route /= <<>>
                 THEN canonicalize(b, n.tree_route[1], canOk) ELSE b,
     try     |-> FALSE,
     calls   |-> (IF n.tree_route /= <<>>
                  THEN <<Call("canonicalize", n.tree_route[1].retracted,
                              n.tree_route[1].enacted, canOk)>>
                  ELSE <<>>)
                 \o (IF try THEN <<Call("create_indexes", <<>>, <<>>, idxOk)>> ELSE <<>>),
     indexes |-> TRUE]

\* The notification branch that indexes a new best block without canonicalizing
\* its tree route.
notification_branch_noCanonicalize(n, b, try, canOk, idxOk) ==
    IF ~n.is_new_best
    THEN [blocks |-> b, try |-> try, calls |-> <<>>, indexes |-> FALSE]
    ELSE [blocks  |-> b,
          try     |-> FALSE,
          calls   |-> IF try THEN <<Call("create_indexes", <<>>, <<>>, idxOk)>> ELSE <<>>,
          indexes |-> TRUE]

\* The notification branch that gives up creating the indexes only once
\* create_indexes succeeded.
notification_branch_retryIndexes(n, b, try, canOk, idxOk) ==
    IF ~n.is_new_best
    THEN [blocks |-> b, try |-> try, calls |-> <<>>, indexes |-> FALSE]
    ELSE [blocks  |-> IF n.tree_route /= <<>>
                      THEN canonicalize(b, n.tree_route[1], canOk) ELSE b,
          try     |-> try /\ ~idxOk,
          calls   |-> (IF n.tree_route /= <<>>
                       THEN <<Call("canonicalize", n.tree_route[1].retracted,
                                   n.tree_route[1].enacted, canOk)>>
                       ELSE <<>>)
                      \o (IF try THEN <<Call("create_indexes", <<>>, <<>>, idxOk)>> ELSE <<>>),
          indexes |-> TRUE]

\* The notification branch of run up to the call of index, for notification n,
\* the blocks table b and the try_create_indexes flag: the table and the flag
\* after it, the backend calls in call order, and whether index is called. A
\* notification that is not a new best is dropped; a tree route is canonicalized
\* first; the first new-best notification creates the indexes.
notification_branch(n, b, try, canOk, idxOk) ==
    IF ~n.is_new_best
    THEN [blocks |-> b, try |-> try, calls |-> <<>>, indexes |-> FALSE]
    ELSE [blocks  |-> IF n.tree_route /= <<>>
                      THEN canonicalize(b, n.tree_route[1], canOk) ELSE b,
          try     |-> FALSE,
          calls   |-> (IF n.tree_route /= <<>>
                       THEN <<Call("canonicalize", n.tree_route[1].retracted,
                                   n.tree_route[1].enacted, canOk)>>
                       ELSE <<>>)
                      \o (IF try THEN <<Call("create_indexes", <<>>, <<>>, idxOk)>> ELSE <<>>),
          indexes |-> TRUE]

\* The notification branch up to the call of index. O: the outcomes the calls
\* may have.
NotificationOn(O) ==
    /\ pc = "idle"
    /\ notifications /= <<>>
    /\ LET n == Head(notifications) IN
       \E canOk \in IF n.is_new_best /\ n.tree_route /= <<>> THEN O ELSE {TRUE} :
       \E idxOk \in IF n.is_new_best /\ try_create_indexes THEN O ELSE {TRUE} :
       \E r \in {notification_branch(n, blocks, try_create_indexes, canOk, idxOk)} :
            /\ notifications' = Tail(notifications)
            /\ blocks' = r.blocks
            /\ try_create_indexes' = r.try
            /\ calls' = r.calls
            /\ hashes' = IF r.indexes THEN <<n.hash>> ELSE <<>>
            /\ notified' = IF r.indexes THEN <<n.hash>> ELSE <<>>
            /\ pc' = IF r.indexes THEN "notification" ELSE "idle"
            /\ stop' = IF r.indexes THEN "none" ELSE "not_best"
            /\ route_retracted' =
                  IF n.is_new_best /\ n.tree_route /= <<>>
                  THEN (route_retracted \cup Range(n.tree_route[1].retracted))
                           \ Range(n.tree_route[1].enacted)
                  ELSE route_retracted
            /\ canon_failed' =
                  IF n.is_new_best /\ n.tree_route /= <<>>
                  THEN LET route == Range(n.tree_route[1].retracted)
                                        \cup Range(n.tree_route[1].enacted)
                       IN  IF canOk THEN canon_failed \ route
                           ELSE canon_failed \cup (route \cap DOMAIN blocks)
                  ELSE canon_failed
    /\ popped' = <<>>
    /\ UNCHANGED <<chainVars, sync_status, logs, cache, current_batch, resume_at,
                   lookup_failed, cache_size, stream>>

Notification == NotificationOn(Outcomes)

NotificationOk == NotificationOn(Success)

\* The node drops the sending half of the notification stream; what is queued
\* is still delivered.
CloseStream ==
    /\ stream = "open"
    /\ stream' = "closed"
    /\ calls' = <<>> /\ stop' = "none" /\ popped' = <<>>
    /\ UNCHANGED <<chainVars, notifications, dbVars, cache, cache_size, current_batch,
                   resume_at, try_create_indexes, hashes, pc, lookup_failed,
                   routeVars, notified>>

\* The notification branch on the end of the stream: `notifications.next()`
\* yields None, `if let Some(notification)` does nothing, and the fused stream
\* is terminated, so select! does not poll it again.
NotificationNone ==
    /\ pc = "idle"
    /\ stream = "closed" /\ notifications = <<>>
    /\ stream' = "terminated"
    /\ calls' = <<>> /\ stop' = "none" /\ popped' = <<>>
    /\ UNCHANGED <<chainVars, notifications, dbVars, cache, cache_size, current_batch,
                   resume_at, try_create_indexes, hashes, pc, lookup_failed,
                   routeVars, notified>>

\* ------------------------------------------------------------ specification
Init ==
    /\ imported = {Genesis}
    /\ best = Genesis
    /\ notifications = <<>>
    /\ sync_status = <<>>
    /\ blocks = [h \in {} |-> 0]
    /\ logs = {}
    /\ cache = <<>>
    /\ cache_size = CacheSize
    /\ stream = "open"
    /\ current_batch = <<>>
    /\ resume_at = <<>>
    /\ try_create_indexes = TRUE
    /\ hashes = <<>>
    /\ notified = <<>>
    /\ pc = "start"
    /\ calls = <<>>
    /\ stop = "none"
    /\ popped = <<>>
    /\ lookup_failed = {}
    /\ route_retracted = {}
    /\ canon_failed = {}

Next ==
    \/ Import
    \/ Startup
    \/ Restart
    \/ Interval
    \/ Notification
    \/ IndexStep

Spec == Init /\ [][Next]_vars

\* KnownHashes on its own, for every capacity up to MaxCacheSize: a cache built
\* empty over a sync_status table of any rows is hydrated once, then hashes it
\* does not hold are inserted.
InitKnownHashes ==
    /\ cache_size \in 0..MaxCacheSize
    /\ sync_status \in Rows
    /\ cache = <<>>
    /\ pc = "start"
    /\ imported = {Genesis} /\ best = Genesis /\ notifications = <<>>
    /\ stream = "open"
    /\ blocks = [h \in {} |-> 0] /\ logs = {}
    /\ current_batch = <<>> /\ resume_at = <<>> /\ try_create_indexes = TRUE
    /\ hashes = <<>> /\ notified = <<>> /\ calls = <<>> /\ stop = "none"
    /\ popped = <<>> /\ lookup_failed = {} /\ route_retracted = {}
    /\ canon_failed = {}

knownHashesFrame ==
    <<chainVars, notifications, stream, dbVars, cache_size, current_batch, resume_at,
      try_create_indexes, hashes, notified, calls, stop, popped, lookup_failed,
      routeVars>>

PopulateCache ==
    /\ pc = "start"
    /\ cache' = KnownHashes_populate_cache(cache, sync_status)
    /\ pc' = "idle"
    /\ UNCHANGED knownHashesFrame

Insert ==
    /\ pc = "idle"
    /\ \E value \in Hashes \ Range(cache) :
          cache' = KnownHashes_insert(cache, value)
    /\ UNCHANGED <<pc, knownHashesFrame>>

NextKnownHashes == PopulateCache \/ Insert

SpecKnownHashes == InitKnownHashes /\ [][NextKnownHashes]_vars

\* One run of the worker on a node whose notification stream may end: any call
\* may fail, the task is not dropped.
NextStream ==
    \/ Import
    \/ Startup
    \/ Interval
    \/ Notification
    \/ IndexStep
    \/ CloseStream
    \/ NotificationNone

SpecStream == Init /\ [][NextStream]_vars

\* One run of the worker on a node whose fork choice may prefer a block to a
\* best block of the same height: any call may fail.
NextTie ==
    \/ Import
    \/ ImportTie
    \/ Startup
    \/ Interval
    \/ Notification
    \/ IndexStep

SpecTie == Init /\ [][NextTie]_vars

\* The worker indexes by interval ticks alone: the node imports only while no
\* worker listens, so no notification is sent, and no call fails. The worker may
\* be stopped and started again at any point. The timer keeps firing and a
\* started traversal runs on.
NextInterval ==
    \/ ImportBeforeStart
    \/ StartupOk
    \/ Restart
    \/ IntervalOk
    \/ IndexStepOk

SpecInterval ==
    /\ Init /\ [][NextInterval]_vars
    /\ WF_vars(StartupOk) /\ WF_vars(IntervalOk) /\ WF_vars(IndexStepOk)

\* The worker indexes by interval ticks alone on a fixed chain, and the calls of
\* startup may fail: the sync_status query or the genesis insert. Afterwards no
\* call fails; the timer keeps firing and a started traversal runs on.
NextGenesis ==
    \/ ImportBeforeStart
    \/ Startup
    \/ IntervalOk
    \/ IndexStepOk

SpecGenesis ==
    /\ Init /\ [][NextGenesis]_vars
    /\ WF_vars(Startup) /\ WF_vars(IntervalOk) /\ WF_vars(IndexStepOk)

\* One run of the worker on a node that imports while it runs: startup, the
\* traversals and leaves() succeed, the calls of the notification branch
\* (canonicalize, create_indexes) may fail. Every branch that can run does.
NextReorg ==
    \/ Import
    \/ StartupOk
    \/ IntervalOk
    \/ Notification
    \/ IndexStepOk

SpecReorg ==
    /\ Init /\ [][NextReorg]_vars
    /\ WF_vars(StartupOk) /\ WF_vars(IntervalOk) /\ WF_vars(Notification)
    /\ WF_vars(IndexStepOk)

\* One run of the worker in which any call may fail: a started traversal is a
\* loop inside one branch of select!, so its iterations run on.
NextWalk ==
    \/ Import
    \/ Startup
    \/ Interval
    \/ Notification
    \/ IndexStep

SpecWalk == Init /\ [][NextWalk]_vars /\ WF_vars(IndexStep)

\* ------------------------------------------------------------------ claims
\* The insert_block_metadata calls of the latest step.
InsertCalls == {i \in 1..Len(calls) : calls[i].op = "insert_block_metadata"}

NoDuplicates(s) == \A i, j \in 1..Len(s) : i /= j => s[i] /= s[j]

\* The node's canonical chain: the best block and its ancestors.
Canonical == AncestorsIncl(best)

\* C1: at the end of every branch, and after startup, every hash in the IHC is
\* recorded in sync_status.
C1_IHCRecorded ==
    pc = "idle" => \A i \in 1..Len(cache) : Contains(sync_status, cache[i])

\* C2: a step whose insert_block_metadata call failed leaves the IHC as it was.
C2_FailedInsertKeepsIHC ==
    [][(\E i \in 1..Len(calls') :
            calls'[i].op = "insert_block_metadata" /\ ~calls'[i].ok) => cache' = cache]_vars

\* C3: a traversal that reaches a hash not recorded in sync_status (so also a
\* hash of a batch whose insert failed) enqueues it: after the step the hash is
\* pending or was passed to insert_block_metadata.
C3_UnrecordedHashEnqueued ==
    [][(popped' /= <<>> /\ popped'[1] /= Zero /\ ~Contains(sync_status, popped'[1]))
        => \/ Contains(current_batch', popped'[1])
           \/ \E i \in 1..Len(calls') :
                 calls'[i].op = "insert_block_metadata" /\ Contains(calls'[i].a, popped'[1])]_vars

\* C4: the IHC never holds more hashes than its capacity, the cache_size of the
\* KnownHashes the worker builds.
C4_IHCWithinCapacity == Len(cache) <= cache_size

C6_PendingEmptyAfterStop ==
    stop \in {"zero", "known"} => current_batch = <<>>

\* C7: no pending hash is recorded in sync_status.
C7_PendingNotRecorded ==
    \A i \in 1..Len(current_batch) : ~Contains(sync_status, current_batch[i])

\* C7, amended: a pending hash is recorded in sync_status only if the IHC's
\* database lookup for it failed when it was enqueued.
C7_PendingRecordedOnlyAfterFailedLookup ==
    \A i \in 1..Len(current_batch) :
        Contains(sync_status, current_batch[i]) => current_batch[i] \in lookup_failed

\* C7 witness: a hash recorded in sync_status was enqueued again after its
\* lookup failed.
C7_Witness ==
    \E i \in 1..Len(current_batch) :
        Contains(sync_status, current_batch[i]) /\ current_batch[i] \in lookup_failed

\* C8: the all-zero hash is never in the IHC, never pending, never passed to
\* insert_block_metadata and never recorded in the database.
C8_ZeroNeverIndexed ==
    /\ ~Contains(cache, Zero)
    /\ ~Contains(current_batch, Zero)
    /\ \A i \in InsertCalls : ~Contains(calls[i].a, Zero)
    /\ ~Contains(sync_status, Zero)
    /\ Zero \notin DOMAIN blocks

\* C8 witness: a traversal walked below genesis and popped the all-zero hash.
C8_Witness == popped = <<Zero>> /\ stop = "zero"

\* C9: once the notifications, among them one with a reorg's tree route, have
\* been processed, is_canon is 1 for exactly the indexed hashes on the node's
\* canonical chain.
C9_CanonAfterReorg ==
    (pc = "idle" /\ notifications = <<>> /\ route_retracted /= {})
        => \A h \in DOMAIN blocks : (blocks[h] = 1) <=> (h \in Canonical)

\* C10: an indexed hash has is_canon = 0 iff a received tree route retracted it
\* and no later one enacted it.
C10_NotCanonIffRetracted ==
    \A h \in DOMAIN blocks : (blocks[h] = 0) <=> (h \in route_retracted)

\* The best chain is strictly longer than every other branch.
BestIsLongest == \A l \in Leaves : l /= best => Number(l) < Number(best)

\* C11: a chain and a longer fork, both imported before the worker starts and
\* indexed by interval ticks alone: between traversals is_canon is 0 for exactly
\* the indexed blocks off the canonical chain, as after a reorg seen through
\* notifications.
C11_IntervalOnlyCanon ==
    (pc = "idle" /\ BestIsLongest)
        => \A h \in DOMAIN blocks : (blocks[h] = 0) <=> (h \notin Canonical)

\* C12: the step that receives a new-best notification with a tree route calls
\* canonicalize for that route first, and enqueues and inserts nothing: the
\* traversal of the notification's head is still to come.
C12_CanonicalizeBeforeIndexing ==
    [][(pc = "idle" /\ pc' = "notification" /\ Head(notifications).tree_route /= <<>>)
        => LET n == Head(notifications)
           IN  /\ calls' /= <<>>
               /\ calls'[1].op = "canonicalize"
               /\ calls'[1].a = n.tree_route[1].retracted
               /\ calls'[1].b = n.tree_route[1].enacted
               /\ \A i \in 1..Len(calls') : calls'[i].op /= "insert_block_metadata"
               /\ current_batch' = current_batch
               /\ sync_status' = sync_status
               /\ hashes' = <<n.hash>>]_vars

\* C12 witness: a tree route was canonicalized and the traversal of the notified
\* head has not begun.
C12_Witness ==
    /\ pc = "notification" /\ notified /= <<>> /\ hashes = notified
    /\ calls /= <<>> /\ calls[1].op = "canonicalize"

\* Every imported block is recorded in sync_status.
AllRecorded == imported \subseteq Range(sync_status)

\* C13: a single chain imported before the worker starts, no notification and no
\* restart: repeated interval ticks eventually record every block of the chain.
C13_IntervalEventuallyIndexesChain ==
    [](Cardinality(Leaves) = 1 /\ (pc = "start" => sync_status = <<>>))
        => <>(pc /= "start" /\ AllRecorded)

\* C14: the step that completes a notification branch leaves pending empty.
C14_PendingEmptyAfterNotification ==
    [][(pc = "notification" /\ pc' = "idle") => current_batch' = <<>>]_vars

\* No recorded block has an unrecorded parent.
NoGap == \A i \in 1..Len(sync_status) :
            sync_status[i] = Genesis \/ Contains(sync_status, Parent(sync_status[i]))

\* C15: a worker is stopped and a fresh one started on the same database and
\* chain; if it is then left running, eventually every block of the chain is
\* recorded in sync_status, none below a recorded one is missing and none is
\* recorded twice.
C15_RestartEventuallyIndexesAll ==
    (<>(pc = "start" /\ sync_status /= <<>>) /\ <>[](pc /= "start"))
        => <>[](AllRecorded /\ NoGap /\ NoDuplicates(sync_status))

\* Every imported block is indexed and nothing is pending, and the step is one of
\* a running worker's interval or notification branch.
IndexedWorkerStep ==
    /\ AllRecorded /\ current_batch = <<>>
    /\ pc \in {"idle", "interval", "notification"} /\ pc' /= "start"
    /\ imported' = imported

\* C16: once every block is indexed and pending is empty, no step of an interval
\* or notification branch calls insert_block_metadata or changes sync_status,
\* blocks, the IHC or pending.
C16_NoWriteWhenAllIndexed ==
    [][IndexedWorkerStep
        => /\ \A i \in 1..Len(calls') : calls'[i].op /= "insert_block_metadata"
           /\ UNCHANGED <<sync_status, blocks, cache, current_batch>>]_vars

\* C16, amended: the same as long as no IHC lookup fails, except that the
\* canonicalize call of a notification's tree route may change is_canon.
C16_NoWriteUnlessLookupFailsOrRoute ==
    [][(IndexedWorkerStep
          /\ \A i \in 1..Len(calls') : calls'[i].op = "sync_status_lookup" => calls'[i].ok)
        => /\ \A i \in 1..Len(calls') : calls'[i].op /= "insert_block_metadata"
           /\ UNCHANGED <<sync_status, cache, current_batch, logs>>
           /\ blocks' /= blocks => \E i \in 1..Len(calls') : calls'[i].op = "canonicalize"]_vars

\* C16 witness: with every block indexed and nothing pending, a traversal asked
\* the database about a recorded hash and stopped on it.
C16_Witness ==
    /\ pc = "idle" /\ stop = "known" /\ AllRecorded /\ current_batch = <<>>
    /\ Len(sync_status) >= 2
    /\ \E i \in 1..Len(calls) : calls[i].op = "sync_status_lookup" /\ calls[i].ok

\* C17: no step passes a hash that is already recorded in sync_status to
\* insert_block_metadata or insert_genesis_block_metadata, within one run or
\* after a restart.
C17_RecordedNeverReinserted ==
    [][\A i \in 1..Len(calls') :
          calls'[i].op \in {"insert_block_metadata", "insert_genesis_block_metadata"}
              => \A j \in 1..Len(calls'[i].a) : ~Contains(sync_status, calls'[i].a[j])]_vars

TreeRoutes == {<<>>} \cup {<<TreeRoute(best, l)>> : l \in Leaves}

\* C19: a notification with is_new_best = false, with or without a tree route,
\* changes nothing: whenever the worker is about to take a notification, for that
\* notification's block announced as not a new best the notification branch
\* leaves blocks and try_create_indexes as they are, makes no backend call and
\* does not call index; and the step that takes such a notification off the
\* stream changes neither the IHC, pending, resume_at, try_create_indexes nor the
\* database and starts no traversal.
C19_NotBestChangesNothing ==
    /\ []((pc = "idle" /\ notifications /= <<>>)
            => \A route \in TreeRoutes, canOk, idxOk \in BOOLEAN :
                 LET r == notification_branch(
                              [hash |-> Head(notifications).hash, is_new_best |-> FALSE,
                               tree_route |-> route],
                              blocks, try_create_indexes, canOk, idxOk)
                 IN  /\ r.blocks = blocks /\ r.try = try_create_indexes
                     /\ r.calls = <<>> /\ ~r.indexes)
    /\ [][(/\ pc = "idle" /\ notifications /= <<>> /\ ~Head(notifications).is_new_best
           /\ notifications' = Tail(notifications) /\ pc' /= "start")
           => /\ UNCHANGED <<cache, current_batch, resume_at, try_create_indexes,
                             sync_status, blocks, logs, hashes>>
              /\ calls' = <<>>
              /\ pc' = "idle"]_vars

\* C19 witness: a notification that is not a new best was dropped while a hash
\* was pending and the indexes were still to be created.
C19_Witness ==
    stop = "not_best" /\ current_batch /= <<>> /\ try_create_indexes

\* C20: create_indexes is called only by the step that receives a worker's first
\* new-best notification: once, after that notification's canonicalize call if
\* any and before its traversal; the step clears try_create_indexes whatever the
\* call returns, and nothing sets the flag again while the worker lives.
C20_CreateIndexesOnce ==
    [][LET idx == {i \in 1..Len(calls') : calls'[i].op = "create_indexes"}
       IN  /\ idx /= {}
                => /\ idx = {Len(calls')}
                   /\ \A j \in 1..(Len(calls') - 1) : calls'[j].op = "canonicalize"
                   /\ try_create_indexes /\ ~try_create_indexes'
                   /\ pc = "idle" /\ pc' = "notification"
                   /\ Head(notifications).is_new_best
                   /\ hashes' = <<Head(notifications).hash>>
           /\ (pc = "idle" /\ pc' = "notification" /\ try_create_indexes) => idx /= {}
           /\ (~try_create_indexes /\ pc' /= "start") => ~try_create_indexes']_vars

\* C20 witness: the first new-best notification carried a tree route, and
\* create_indexes failed after its canonicalize call.
C20_Witness ==
    /\ ~try_create_indexes /\ Len(calls) = 2
    /\ calls[1].op = "canonicalize"
    /\ calls[2].op = "create_indexes" /\ ~calls[2].ok

\* C21: once startup has succeeded the worker loop never exits. No step of a
\* running worker, whatever call fails in it, ends the worker; and whenever the
\* worker waits in select!, also after the notification stream has terminated,
\* the interval branch can be taken.
Running == {"idle", "interval", "notification"}

C21_LoopNeverExits ==
    /\ [][(pc \in Running) => (pc' \in Running)]_vars
    /\ [](pc = "idle" => ENABLED Interval)

\* The stream has terminated, an interval traversal is under way and a call of
\* its latest step failed.
C21_Witness ==
    /\ stream = "terminated"
    /\ pc = "interval"
    /\ \E i \in 1..Len(calls) : ~calls[i].ok

\* C22: if the sync_status query made at startup fails, the worker terminates
\* before any other backend call and before any branch runs. The step with the
\* failed query makes that call alone, writes nothing and ends the worker; an
\* ended worker takes no interval, notification or traversal step, and until
\* the task is run again no call is made and neither the database nor the
\* worker changes.
C22_StartupQueryFatal ==
    /\ [][(pc = "start" /\ \E i \in 1..Len(calls') :
                              calls'[i].op = "populate_cache" /\ ~calls'[i].ok)
            => /\ pc' = "dead"
               /\ Len(calls') = 1
               /\ UNCHANGED <<dbVars, cache, current_batch, resume_at, hashes>>]_vars
    /\ [][pc = "dead"
            => /\ pc' \in {"dead", "start"}
               /\ calls' = <<>>
               /\ UNCHANGED dbVars
               /\ pc' = "dead" => UNCHANGED <<cache, current_batch, resume_at, hashes,
                                              try_create_indexes>>]_vars
    /\ [](pc = "dead" => ~ENABLED (Interval \/ Notification \/ IndexStep))

\* A worker started on an indexed database ended on the failed query, while a
\* block it never indexed is imported.
C22_Witness ==
    /\ pc = "dead"
    /\ sync_status /= <<>>
    /\ ~(imported \subseteq Range(sync_status))
    /\ calls = <<Call("populate_cache", <<>>, <<>>, FALSE)>>

\* C23: at startup with an empty IHC the worker calls
\* insert_genesis_block_metadata; when the call succeeds the genesis hash is in
\* the IHC as the loop is entered, when it fails the IHC is empty and the loop
\* is entered all the same; and after a failed call the genesis block
\* eventually has its sync_status row, enqueued by an interval traversal.
GenesisCalls == {i \in 1..Len(calls) : calls[i].op = "insert_genesis_block_metadata"}

C23_GenesisAtStartup ==
    /\ [][(pc = "start" /\ pc' = "idle"
            /\ KnownHashes_latest(KnownHashes_populate_cache(cache, sync_status)) = <<>>)
            => \E i \in 1..Len(calls') : calls'[i].op = "insert_genesis_block_metadata"]_vars
    /\ [](\A i \in GenesisCalls :
              /\ pc = "idle"
              /\ cache = IF calls[i].ok THEN <<Genesis>> ELSE <<>>)
    /\ (<>(\E i \in GenesisCalls : ~calls[i].ok)) => <>Contains(sync_status, Genesis)

\* C24: KnownHashes::contains(h) answers true for a cached h without querying
\* the database; on a cache miss it queries sync_status once and answers true
\* exactly when h has a row; when the query fails it answers false, and the
\* traversal goes on to enqueue h: after the step h is pending or was passed to
\* insert_block_metadata.
LookupCalls(cs) == {i \in 1..Len(cs) : cs[i].op = "sync_status_lookup"}

C24_ContainsCacheThenRows ==
    [][(popped' /= <<>> /\ popped'[1] /= Zero)
        => LET h == popped'[1]
           IN  IF Contains(cache, h)
               THEN /\ LookupCalls(calls') = {}
                    /\ stop' = "known"
                    /\ \A dbOk \in BOOLEAN : KnownHashes_contains(cache, h, sync_status, dbOk)
               ELSE /\ LookupCalls(calls') = {1}
                    /\ calls'[1].a = <<h>>
                    /\ KnownHashes_contains(cache, h, sync_status, TRUE)
                           = Contains(sync_status, h)
                    /\ ~KnownHashes_contains(cache, h, sync_status, FALSE)
                    /\ calls'[1].ok => (stop' = "known" <=> Contains(sync_status, h))
                    /\ ~calls'[1].ok
                         => /\ stop' /= "known"
                            /\ \/ Contains(current_batch', h)
                               \/ \E i \in 1..Len(calls') :
                                     /\ calls'[i].op = "insert_block_metadata"
                                     /\ Contains(calls'[i].a, h)]_vars

\* The query for a hash that has its row failed, the hash is not cached, and the
\* traversal enqueued it and went on to its parent.
C24_Witness ==
    /\ popped /= <<>> /\ stop = "none"
    /\ LookupCalls(calls) = {1} /\ ~calls[1].ok
    /\ Contains(sync_status, popped[1]) /\ ~Contains(cache, popped[1])
    /\ current_batch = popped
    /\ hashes = <<Parent(popped[1])>>

\* C25: populate_cache on an empty cache of capacity N over R sync_status rows
\* leaves exactly min(N, R) hashes, the rows with the highest ids in descending
\* id order, so that latest() is the hash of the highest id; with R = 0 the
\* cache stays empty.
C25_HydrationNewestFirst ==
    [][(pc = "start" /\ pc' = "idle" /\ cache = <<>>)
        => LET R == Len(sync_status)
               n == IF cache_size < R THEN cache_size ELSE R
           IN  /\ Len(cache') = n
               /\ \A i \in 1..n : cache'[i] = sync_status[R + 1 - i]
               /\ n > 0 => KnownHashes_latest(cache') = <<sync_status[R]>>
               /\ R = 0 => cache' = <<>>]_vars

\* A cache of capacity 2 hydrated over three rows holds the two newest, the
\* newest first.
C25_Witness ==
    /\ pc = "idle" /\ cache_size = 2 /\ Len(sync_status) = 3
    /\ cache = <<sync_status[3], sync_status[2]>>

\* C26: KnownHashes::insert(h) puts h at the front; it removes and returns the
\* tail exactly when the cache held cache_size entries before the call, and
\* otherwise removes and returns nothing; the cache never holds more than
\* cache_size entries.
C26_InsertWithinCapacity ==
    [][(pc = "idle" /\ cache' /= cache)
        => LET ret == KnownHashes_insert_popped(cache, cache'[1])
               full == Len(cache) = cache_size
           IN  /\ cache' /= <<>>
               /\ ret /= <<>> <=> full
               /\ full => /\ ret = <<cache[Len(cache)]>>
                          /\ Tail(cache') = SubSeq(cache, 1, Len(cache) - 1)
               /\ ~full => Tail(cache') = cache
               /\ Len(cache') <= cache_size]_vars

\* The step is an iteration of index that calls index_block.
EnqueueStep == popped' /= <<>> /\ popped'[1] /= Zero /\ stop' /= "known"

FlushCalls(cs) == {i \in 1..Len(cs) : cs[i].op = "insert_block_metadata"}

\* C27: index_block returns false exactly when the hash is already pending and
\* force is false, and then it changes neither pending nor the IHC and makes no
\* backend call; in every other case it returns true and the hash is pending
\* or was passed to insert_block_metadata by the call. Stated of every call the
\* traversal makes: a false return is the break that leaves the loop as
\* "queued".
C27_EnqueueReturnsFalseIffPending ==
    [][EnqueueStep
        => LET h == popped'[1]
               force == (pc = "notification")
               pending == Contains(current_batch, h)
           IN  /\ stop' = "queued" <=> (pending /\ ~force)
               /\ stop' = "queued"
                    => /\ UNCHANGED <<current_batch, cache, dbVars>>
                       /\ \A i \in 1..Len(calls') : calls'[i].op = "sync_status_lookup"
               /\ stop' /= "queued"
                    => \/ Contains(current_batch', h)
                       \/ \E i \in FlushCalls(calls') : Contains(calls'[i].a, h)]_vars

\* An interval traversal ended on a hash that was already pending.
C27_Witness ==
    /\ pc = "idle" /\ stop = "queued"
    /\ popped /= <<>> /\ Contains(current_batch, popped[1])
    /\ FlushCalls(calls) = {}

\* C28: index_block flushes exactly when, after the optional append, force is
\* true or the length of pending equals batch_size; a non-force call that
\* leaves fewer than batch_size hashes pending makes no backend call.
C28_FlushIffForceOrFull ==
    [][EnqueueStep
        => LET h == popped'[1]
               force == (pc = "notification")
               after == IF Contains(current_batch, h) THEN current_batch
                        ELSE Append(current_batch, h)
           IN  /\ FlushCalls(calls') /= {} <=> (force \/ Len(after) = BatchSize)
               /\ (~force /\ Len(after) < BatchSize)
                    => \A i \in 1..Len(calls') :
                          calls'[i].op \in {"sync_status_lookup", "header"}]_vars

\* A non-force call filled the batch to batch_size and flushed it.
C28_Witness ==
    /\ pc = "interval" /\ popped /= <<>> /\ current_batch = <<>>
    /\ \E i \in FlushCalls(calls) :
          /\ Len(calls[i].a) = BatchSize
          /\ calls[i].a[BatchSize] = popped[1]

\* C29: a worker that starts on a database whose sync_status is not empty, on a
\* node that knows the header of the most recently recorded hash h, does not
\* call insert_genesis_block_metadata and sets resume_at to parent_hash(h); the
\* first interval pass whose leaves() call succeeds traverses from that hash as
\* well (unless the IHC holds it) and clears resume_at, which is never set
\* again while the worker runs.
C29_ResumeAtCheckpoint ==
    /\ [][(pc = "start" /\ pc' = "idle" /\ sync_status /= <<>>
            /\ sync_status[Len(sync_status)] \in imported)
            => /\ \A i \in 1..Len(calls') :
                     calls'[i].op /= "insert_genesis_block_metadata"
               /\ resume_at' = <<Parent(sync_status[Len(sync_status)])>>]_vars
    /\ [][(pc = "idle" /\ resume_at /= <<>> /\ resume_at' = <<>> /\ pc' /= "start")
            => \/ Contains(hashes', resume_at[1])
               \/ Contains(cache, resume_at[1])]_vars
    /\ [][(pc \notin {"start", "dead"} /\ resume_at = <<>>) => resume_at' = <<>>]_vars

\* C30: each flush passes the whole pending list to the backend in one
\* insert_block_metadata call, in enqueue order, and the lists of all calls,
\* concatenated in call order, are the hashes in the order they were enqueued.
\* Stated step by step, which gives the concatenation by induction over the run
\* of a worker: a hash is enqueued at the tail of pending and only by a
\* traversal step; a step makes at most one insert_block_metadata call, whose
\* list is all of pending with the hash of the step at its tail, and leaves
\* pending empty; no other step changes pending, but the end of the worker.
C30_FlushWholeBatchInOrder ==
    [][LET flushes == FlushCalls(calls')
       IN  /\ Cardinality(flushes) <= 1
           /\ (flushes /= {} \/ (current_batch' /= current_batch /\ pc' /= "start"))
                => /\ popped' /= <<>>
                   /\ LET h == popped'[1]
                          after == IF Contains(current_batch, h) THEN current_batch
                                   ELSE Append(current_batch, h)
                      IN  IF flushes /= {}
                          THEN /\ \A i \in flushes : calls'[i].a = after
                               /\ current_batch' = <<>>
                          ELSE current_batch' = after]_vars

\* A flush passed a child and then its parent, the order in which the traversal
\* enqueued them.
C30_Witness ==
    /\ popped /= <<>>
    /\ \E i \in FlushCalls(calls) :
          /\ Len(calls[i].a) = 2
          /\ calls[i].a[2] = popped[1]
          /\ calls[i].a[2] = Parent(calls[i].a[1])

HeaderMisses(cs) == {i \in 1..Len(cs) : cs[i].op = "header" /\ ~cs[i].ok}

\* C31: when the header lookup for a traversed hash h misses or fails, the walk
\* along h's ancestors ends without error: h stays enqueued (pending, or passed
\* to insert_block_metadata by the step), no parent is pushed, the traversal
\* goes on with the remaining entries of the vector or ends when there are
\* none, the worker keeps running, and an interval tick whose leaves() call
\* succeeds starts a traversal from the leaves the IHC does not hold.
C31_HeaderMissEndsWalk ==
    /\ [][HeaderMisses(calls') /= {}
            => LET h == popped'[1]
                   rest == SubSeq(hashes, 1, Len(hashes) - 1)
               IN  /\ \/ Contains(current_batch', h)
                      \/ \E i \in FlushCalls(calls') : Contains(calls'[i].a, h)
                   /\ hashes' = rest
                   /\ pc' = IF rest = <<>> THEN "idle" ELSE pc
                   /\ stop' = IF rest = <<>> THEN "empty" ELSE "none"]_vars
    /\ [][(pc = "idle" /\ \E i \in 1..Len(calls') : calls'[i].op = "leaves" /\ calls'[i].ok)
            => /\ Range(hashes') = {l \in Leaves \cup Range(resume_at) : ~Contains(cache, l)}
               /\ pc' = IF hashes' = <<>> THEN "idle" ELSE "interval"]_vars

\* The header of a traversed leaf was not found, the leaf is pending and the
\* traversal goes on with another leaf.
C31_Witness ==
    /\ HeaderMisses(calls) /= {}
    /\ pc = "interval" /\ hashes /= <<>>
    /\ popped /= <<>> /\ Contains(current_batch, popped[1])
    /\ hashes[Len(hashes)] \in Leaves

CanonicalizeFailures(cs) == {i \in 1..Len(cs) : cs[i].op = "canonicalize" /\ ~cs[i].ok}

\* C32: a failed backend canonicalize call is not propagated, the notified
\* head is indexed in the same branch; and the route is applied again later,
\* by a notification or an interval tick, so that from some point on the
\* is_canon flag of every recorded hash of a route whose call failed is right:
\* 0 when the latest received route retracted it, 1 when it enacted it.
C32_FailedCanonicalizeRetried ==
    /\ [][CanonicalizeFailures(calls') /= {}
            => /\ pc' = "notification"
               /\ hashes' = <<Head(notifications).hash>>]_vars
    /\ <>[](\A h \in canon_failed : blocks[h] = IF h \in route_retracted THEN 0 ELSE 1)

\* The worker takes a new-best notification whose tree route retracts hashes and
\* enacts none.
PureRetractionTaken ==
    /\ pc = "idle" /\ notifications /= <<>>
    /\ notifications' = Tail(notifications)
    /\ Head(notifications).is_new_best
    /\ Head(notifications).tree_route /= <<>>
    /\ Head(notifications).tree_route[1].enacted = <<>>
    /\ Head(notifications).tree_route[1].retracted /= <<>>

\* The state right after such a notification was taken: the traversal of the
\* notified head is about to run.
PureRetractionBranch ==
    /\ pc = "notification" /\ popped = <<>>
    /\ calls /= <<>> /\ calls[1].op = "canonicalize"
    /\ calls[1].a /= <<>> /\ calls[1].b = <<>>

\* C33: a new-best notification whose tree route has an empty enacted list and
\* a non-empty retracted list only flips is_canon to 0 for the retracted
\* hashes: no traversal enqueues a hash and no insert_block_metadata call is
\* made in that notification branch.
C33_PureRetractionIndexesNothing ==
    /\ [][PureRetractionTaken
            => /\ \A h \in DOMAIN blocks' :
                     blocks'[h] = IF h \in Range(Head(notifications).tree_route[1].retracted)
                                  THEN 0 ELSE blocks[h]
               /\ UNCHANGED <<sync_status, current_batch, cache>>]_vars
    /\ [][PureRetractionBranch
            => /\ current_batch' = current_batch
               /\ FlushCalls(calls') = {}]_vars

\* C33 as the code has it: the canonicalize call of such a notification, when
\* it succeeds, only flips is_canon to 0 for the retracted hashes that have rows
\* and writes nothing else; the branch then indexes the notified head as for
\* every new-best notification: the traversal starts from the head, in force
\* mode, and its first step passes the head to insert_block_metadata unless the
\* IHC reports it as indexed.
C33_PureRetractionThenHeadIndexed ==
    /\ [][PureRetractionTaken
            => LET n == Head(notifications)
                   ok == calls'[1].ok
               IN  /\ calls'[1].op = "canonicalize"
                   /\ calls'[1].a = n.tree_route[1].retracted /\ calls'[1].b = <<>>
                   /\ DOMAIN blocks' = DOMAIN blocks
                   /\ \A h \in DOMAIN blocks :
                         blocks'[h] = IF ok /\ h \in Range(n.tree_route[1].retracted)
                                      THEN 0 ELSE blocks[h]
                   /\ FlushCalls(calls') = {}
                   /\ UNCHANGED <<sync_status, current_batch, cache>>
                   /\ pc' = "notification" /\ hashes' = <<n.hash>>]_vars
    /\ [][(PureRetractionBranch /\ popped' /= <<>>)
            => /\ popped' = notified
               /\ \/ stop' = "known" /\ current_batch' = current_batch
                                     /\ FlushCalls(calls') = {}
                  \/ /\ current_batch' = <<>>
                     /\ \E i \in FlushCalls(calls') :
                           Contains(calls'[i].a, notified[1])]_vars

\* The canonicalize call of a pure retraction succeeded and flipped the row of
\* the retracted block; the notified head is about to be indexed.
C33_Witness ==
    /\ PureRetractionBranch
    /\ calls[1].ok
    /\ calls[1].a[1] \in DOMAIN blocks /\ blocks[calls[1].a[1]] = 0
    /\ ~Contains(sync_status, notified[1])

\* Every leaf of the imported tree is recorded, cached or pending.
LeavesEnqueued ==
    \A l \in Leaves :
        Contains(sync_status, l) \/ Contains(cache, l) \/ Contains(current_batch, l)

\* C34: with interval ticks alone, every leaf returned by leaves() that is not
\* yet indexed is eventually traversed and enqueued, whatever the other leaves
\* are: once the worker is no longer started anew, a state is reached in which
\* every leaf is recorded, in the IHC or pending.
C34_EveryLeafEventuallyEnqueued ==
    (<>[](pc /= "start")) => <>LeavesEnqueued

\* C35: the interval branch and the notification branch never interleave.
\* While a branch is under way no branch is taken: neither the timer nor the
\* stream is polled; a branch under way ends in select! or with the worker; and
\* the IHC, pending and resume_at are changed only by startup, by the step that
\* takes the interval branch, by a traversal step of the branch under way, or
\* by the end of the worker.
C35_BranchesNeverInterleave ==
    /\ [](pc \in {"interval", "notification"}
            => ~ENABLED (Interval \/ Notification \/ NotificationNone))
    /\ [][(pc \in {"interval", "notification"} /\ pc' /= "start")
            => /\ pc' \in {pc, "idle"}
               /\ pc' = "idle" => hashes' = <<>>
               /\ notifications' /= notifications
                    => \E n \in {notifications'[Len(notifications')]} :
                          notifications' = Append(notifications, n)]_vars
    /\ [][(cache' /= cache \/ current_batch' /= current_batch \/ resume_at' /= resume_at)
            => \/ pc = "start" /\ pc' = "idle"
               \/ pc' = "start"
               \/ pc = "idle" /\ calls' = <<Call("leaves", <<>>, <<>>, TRUE)>>
               \/ pc \in {"interval", "notification"} /\ popped' /= <<>>]_vars

\* A notification branch is in the middle of its traversal while another
\* notification waits in the stream.
C35_Witness ==
    /\ pc = "notification" /\ popped /= <<>> /\ hashes /= <<>>
    /\ notifications /= <<>>
    /\ current_batch = <<>> /\ cache /= <<>>

\* C36: pending never holds more than batch_size hashes, it holds fewer than
\* batch_size hashes whenever no branch is running, and no
\* insert_block_metadata call receives more than batch_size hashes.
C36_PendingWithinBatchSize ==
    /\ Len(current_batch) <= BatchSize
    /\ pc \in {"start", "idle", "dead"} => Len(current_batch) < BatchSize
    /\ \A i \in InsertCalls : Len(calls[i].a) <= BatchSize

\* Between two branches pending is one hash short of batch_size, left there by
\* an interval traversal that ended on an indexed hash.
C36_Witness ==
    /\ pc = "idle" /\ stop = "known"
    /\ Len(current_batch) = BatchSize - 1
    /\ current_batch /= <<>>

\* The hash is recorded, in the IHC or pending after the step.
Enqueued(h) ==
    Contains(sync_status', h) \/ Contains(cache', h) \/ Contains(current_batch', h)

\* C37: whenever a traversal stops at a hash h because the IHC reports h as
\* indexed or because index_block returned false for h, every ancestor of h down
\* to genesis is recorded in sync_status, in the IHC or pending.
C37_AncestorsEnqueuedAtStop ==
    [][(popped' /= <<>> /\ stop' \in {"known", "queued"})
        => \A a \in AncestorsIncl(popped'[1]) : a /= Zero => Enqueued(a)]_vars

\* The number of ancestors of a hash, itself included: 0 for the zero hash.
Depth(b) == Cardinality(AncestorsIncl(b))

\* A bound on the iterations a traversal has left: each hash of the vector and
\* each of its ancestors is popped at most once.
RECURSIVE WalkMeasure(_)
WalkMeasure(s) ==
    IF s = <<>> THEN 0 ELSE Depth(Head(s)) + 1 + WalkMeasure(Tail(s))

InTraversal == {"interval", "notification"}

\* C38: every traversal terminates, in force and in non-force mode and whatever
\* calls fail. Each iteration pops one hash and pushes at most its parent, so a
\* bound on the remaining iterations strictly decreases; a traversal under way
\* has a hash to pop, and the worker is again and again outside a traversal.
C38_TraversalTerminates ==
    /\ [][IndexStep =>
            LET hash == hashes[Len(hashes)]
                rest == SubSeq(hashes, 1, Len(hashes) - 1)
            IN  /\ popped' = <<hash>>
                /\ hashes' \in {<<>>, rest, Append(rest, Parent(hash))}
                /\ WalkMeasure(hashes') < WalkMeasure(hashes)
                /\ (pc' \in InTraversal) <=> (hashes' /= <<>>)]_vars
    /\ [](pc \in InTraversal => hashes /= <<>>)
    /\ []<>(pc \notin InTraversal)

\* A force-mode traversal whose call failed has moved on to the parent of the
\* popped hash with further hashes still to visit.
C38_Witness ==
    /\ pc = "notification"
    /\ popped /= <<>>
    /\ \E i \in DOMAIN calls : ~calls[i].ok
    /\ hashes = <<Parent(popped[1])>>
    /\ Parent(popped[1]) /= Zero

\* C39: the IHC holds each hash at most once, and no hash is at the same time in
\* the IHC and pending.
C39_CacheHoldsEachHashOnce ==
    /\ NoDuplicates(cache)
    /\ Range(cache) \cap Range(current_batch) = {}

\* The IHC holds two hashes and another is pending, right after an iteration
\* whose sync_status query failed.
C39_Witness ==
    /\ Len(cache) >= 2
    /\ current_batch /= <<>>
    /\ popped /= <<>>
    /\ \E i \in DOMAIN calls : calls[i].op = "sync_status_lookup" /\ ~calls[i].ok

\* The calls of an interval branch whose leaves() failed.
LeavesFailed == <<Call("leaves", <<>>, <<>>, FALSE)>>

\* C40: when leaves() returns an error in the interval branch, the IHC, pending
\* and resume_at are unchanged, no backend call is made and no traversal starts,
\* and the timer is re-armed: the worker waits in select! again and the interval
\* branch can be taken.
C40_LeavesErrorKeepsState ==
    /\ [][(pc = "idle" /\ calls' = LeavesFailed /\ calls' /= calls) =>
            /\ UNCHANGED <<cache, current_batch, resume_at, dbVars,
                           try_create_indexes, hashes>>
            /\ hashes' = <<>> /\ popped' = <<>>
            /\ pc' = "idle"]_vars
    /\ [](pc = "idle" /\ calls = LeavesFailed => ENABLED Interval)

\* leaves() has just failed while one hash is pending and others are in the IHC.
C40_Witness ==
    /\ pc = "idle"
    /\ calls = LeavesFailed
    /\ current_batch /= <<>>
    /\ cache /= <<>>

====
